---- MODULE Spec2Model ----
(***************************************************************************)
(* Model of src/windscribe_port.py: WindscribePortManager and main().      *)
(* One run of the process: load configuration, acquire an ephemeral port   *)
(* through a browser session, set the torrent client's listening port,     *)
(* rewrite the docker .env file, restart and health-poll the containers,   *)
(* report through the Discord webhook, exit.                               *)
(***************************************************************************)
EXTENDS Integers, Sequences, FiniteSets, TLC

(* ---------------------------------------------------------------- bounds *)
MaxLen == 2            \* longest captured port text (characters)
MaxInterrupts == 1     \* KeyboardInterrupts delivered in one run
MaxPollDur == 0        \* longest duration of one `docker inspect` call
MaxFileLen == 4        \* longest .env content (tokens) the rewrite is fed

(* ------------------------------------------------------ program constants *)
health_timeout == 60   \* wait_for_healthy_docker_container(..., timeout=60)
poll_interval == 5     \* time.sleep(5)

required_vars == <<"ws_username", "ws_password", "qbt_username",
                   "qbt_password", "qbt_host", "qbt_port">>
RequiredKeys == {required_vars[i] : i \in 1..Len(required_vars)}
OptionalKeys == {"discord_webhook_url", "docker_path"}
AllKeys == RequiredKeys \cup OptionalKeys

\* os.getenv(var): None, the empty string, or a non-empty string
EnvValues == {"None", "", "v"}

services == <<"gluetun", "qbittorrent", "prowlarr">>
\* lines 371, 376, 381: the message raised for a service
HealthFailureMsg(s) ==
    CASE s = "gluetun" -> "Gluetun failed to become healthy"
      [] s = "qbittorrent" -> "qBittorrent failed to become healthy"
      [] s = "prowlarr" -> "Prowlarr failed to become healthy"

\* docker inspect --format {{.State.Health.Status}}
HealthStatuses == {"starting", "healthy", "unhealthy"}

\* Characters a captured text is built from: two ASCII digits, a letter,
\* a blank, and SUPERSCRIPT TWO (a non-ASCII character of category No).
Chars == {"0", "7", "a", " ", "sup2"}
Whitespace == {" "}
\* str.isdigit() is true of ASCII digits and of SUPERSCRIPT TWO
PyDigitChars == {"0", "7", "sup2"}
\* int() accepts decimal digits only
DecimalChars == {"0", "7"}

Texts == UNION {[1..n -> Chars] : n \in 0..MaxLen}

(* ------------------------------------------------------------------ state *)
VARIABLES
    env,            \* the process environment: key -> EnvValues
    config,         \* self.config: key -> value, or the empty function
    status_steps,   \* self.status_steps: sequence of <<step, mark>>
    pc,             \* position of the process
    exc,            \* exception in flight
    browser,        \* self.browser: "None" or "sb"
    session,        \* the browser session: "unopened", "open", "released"
    web,            \* what was done in the browser session
    port,           \* the port returned by get_windscribe_port (<<>>: none)
    qbt,            \* what was done against the torrent client
    envFile,        \* the docker .env file, before and after the rewrite
    docker,         \* restart and health polling
    notifications,  \* calls of send_discord_notification
    interrupts,     \* KeyboardInterrupts delivered
    exitCode        \* status passed to sys.exit (-1: not exited)

vars == <<env, config, status_steps, pc, exc, browser, session, web, port,
          qbt, envFile, docker, notifications, interrupts, exitCode>>

NoExc == [type |-> "none", msg |-> ""]
Exc(t, m) == [type |-> t, msg |-> m]

OK == "ok"
FAIL == "fail"

(* ---------------------------------------------------------------- helpers *)
\* `if not value` / `if os.getenv(...)`: None and "" are both falsy
Truthy(v) == v \notin {"None", ""}

\* _load_config, lines 58-65: the required variables that are missing
MissingVars_SkipLast(e) ==
    SelectSeq(SubSeq(required_vars, 1, Len(required_vars) - 1),
              LAMBDA k : ~Truthy(e[k]))
MissingVars(e) == SelectSeq(required_vars, LAMBDA k : ~Truthy(e[k]))

\* _load_config, lines 58-82: the config dictionary on success
LoadedConfig(e) ==
    [k \in RequiredKeys \cup {o \in OptionalKeys : Truthy(e[o])} |-> e[k]]

\* _load_config, lines 77-81: the initial status ledger
InitialLedger(e) ==
    <<  <<"new windscribe port", FAIL>>, <<"update qbittorrent port", FAIL>> >>
    \o (IF Truthy(e["docker_path"])
        THEN << <<"update docker env", FAIL>>,
                <<"restart docker containers", FAIL>> >>
        ELSE << >>)

\* dict lookup and item assignment on self.status_steps
HasStep(l, k) == \E i \in 1..Len(l) : l[i][1] = k
StatusOf(l, k) ==
    IF HasStep(l, k) THEN l[CHOOSE i \in 1..Len(l) : l[i][1] = k][2]
    ELSE "absent"
SetStatus(l, k, v) ==
    IF HasStep(l, k)
    THEN [i \in 1..Len(l) |-> IF l[i][1] = k THEN <<k, v>> ELSE l[i]]
    ELSE Append(l, <<k, v>>)

\* str.strip()
RECURSIVE LStrip(_)
LStrip(s) ==
    IF s # << >> /\ Head(s) \in Whitespace THEN LStrip(Tail(s)) ELSE s
RECURSIVE RStrip(_)
RStrip(s) ==
    IF s # << >> /\ s[Len(s)] \in Whitespace
    THEN RStrip(SubSeq(s, 1, Len(s) - 1)) ELSE s
Strip(s) == RStrip(LStrip(s))

\* str.isdigit(): non-empty and every character is a digit character
IsDigit(s) == /\ Len(s) > 0
              /\ \A i \in 1..Len(s) : s[i] \in PyDigitChars

\* int(port): defined on decimal digits, ValueError otherwise
IntDefined(s) == /\ Len(s) > 0
                 /\ \A i \in 1..Len(s) : s[i] \in DecimalChars
DigitValue(c) == IF c = "7" THEN 7 ELSE 0
RECURSIVE IntOf(_)
IntOf(s) ==
    IF s = << >> THEN 0
    ELSE 10 * IntOf(SubSeq(s, 1, Len(s) - 1)) + DigitValue(s[Len(s)])

(* ------------------------------------------------------------------- Init *)
NoWeb == [calls |-> 0, captcha |-> "unknown", bypassCalls |-> 0,
          usernameTyped |-> FALSE, passwordTyped |-> FALSE,
          submitted |-> FALSE, buttonText |-> "",
          deleteClicked |-> FALSE, deletedObserved |-> FALSE,
          deleteTimedOut |-> FALSE, requestClicked |-> FALSE,
          captured |-> << >>, hasCaptured |-> FALSE, retval |-> << >>,
          hasPrimary |-> FALSE, primary |-> NoExc,
          makedirs |-> "none", screenshot |-> "none"]

NoQbt == [logins |-> 0, loggedIn |-> FALSE, calls |-> 0, arg |-> << >>,
          fetched |-> << >>, submitted |-> << >>]

NoFile == [read |-> FALSE, before |-> << >>, after |-> << >>,
           written |-> FALSE, attempts |-> 0]

NoDocker == [calls |-> 0, restarts |-> 0, svc |-> 0, elapsed |-> 0,
             polls |-> 0, lastAt |-> 0, lastStatus |-> "none",
             sawTerminal |-> FALSE, sleeps |-> 0, ret |-> "none",
             polled |-> << >>, results |-> << >>]

Init ==
    /\ env \in [AllKeys -> EnvValues]
    /\ config = << >>
    /\ status_steps = << >>
    /\ pc = "main"
    /\ exc = NoExc
    /\ browser = "None"
    /\ session = "unopened"
    /\ web = NoWeb
    /\ port = << >>
    /\ qbt = NoQbt
    /\ envFile = NoFile
    /\ docker = NoDocker
    /\ notifications = << >>
    /\ interrupts = 0
    /\ exitCode = -1

(* ------------------------------------------------- exceptions and exits *)
\* main(), lines 459-467: what an exception that reaches main() exits with
MainExitCode(e) == IF e.type = "KeyboardInterrupt" THEN 130 ELSE 1

\* An exception raised in, or propagated into, the try block of run()
\* (lines 411-452): Exception subclasses go to the handler of line 444,
\* KeyboardInterrupt leaves run() and reaches main().
RaiseInRun(e) ==
    /\ exc' = e
    /\ IF e.type = "KeyboardInterrupt"
       THEN pc' = "done" /\ exitCode' = MainExitCode(e)
       ELSE pc' = "except" /\ exitCode' = exitCode

\* get_windscribe_port, lines 225-232: the except clauses of the outer try
AcqHandled(e) ==
    IF e.type = "TimeoutException"
    THEN Exc("Exception", "Timeout while acquiring Windscribe port")
    ELSE e

\* get_windscribe_port, lines 225-235: an exception raised in the try body
\* passes the except clauses and enters the finally block, which does its
\* cleanup only `if self.browser`.
RaiseInAcq(e, w) ==
    IF browser # "None"
    THEN /\ exc' = AcqHandled(e)
         /\ pc' = "finally_makedirs"
         /\ exitCode' = exitCode
         /\ web' = [w EXCEPT !.hasPrimary = TRUE, !.primary = AcqHandled(e)]
    ELSE /\ RaiseInRun(AcqHandled(e))
         /\ web' = w

(* ------------------------------------------------ main() and __init__ *)
\* main() line 460: WindscribePortManager() -> _load_config (lines 49-82).
\* A ConfigurationError leaves the constructor, so it is raised outside
\* run() and is caught by `except Exception` of main() (lines 465-467).
Construct ==
    /\ pc = "main"
    /\ IF MissingVars(env) # << >>
       THEN /\ exc' = Exc("ConfigurationError",
                          "Missing required environment variables")
            /\ pc' = "done"
            /\ exitCode' = MainExitCode(exc')
            /\ UNCHANGED <<config, status_steps>>
       ELSE /\ config' = LoadedConfig(env)
            /\ status_steps' = InitialLedger(env)
            /\ pc' = "run"
            /\ UNCHANGED <<exc, exitCode>>
    /\ UNCHANGED <<env, browser, session, web, port, qbt, envFile, docker,
                   notifications, interrupts>>

(* ------------------------------------------------ get_windscribe_port *)
\* Outcomes of a bounded wait (_wait_for_element, _wait_for_clickable) or
\* of a browser command: success, TimeoutException, or another
\* WebDriverException.
TimeoutExc == Exc("TimeoutException", "TimeoutException")
DriverExc == Exc("WebDriverException", "WebDriverException")

AcqFrame == UNCHANGED <<env, config, qbt, envFile, docker, notifications,
                        interrupts, port>>

\* run() line 413 -> get_windscribe_port line 134
StartRun ==
    /\ pc = "run"
    /\ pc' = "init_browser"
    /\ web' = [web EXCEPT !.calls = @ + 1]
    /\ UNCHANGED <<env, config, status_steps, exc, browser, session,
                   port, qbt, envFile, docker, notifications, interrupts,
                   exitCode>>

\* line 137, _init_browser (lines 85-97)
InitBrowser ==
    /\ pc = "init_browser"
    /\ \E o \in {"ok", "error"} :
         IF o = "ok"
         THEN /\ browser' = "sb"
              /\ session' = "open"
              /\ pc' = "open_login"
              /\ UNCHANGED <<exc, exitCode, web>>
         ELSE /\ RaiseInAcq(Exc("Exception", "Failed to initialize browser"),
                            web)
              /\ UNCHANGED <<browser, session>>
    /\ UNCHANGED status_steps
    /\ AcqFrame

\* lines 139-142: uc_open_with_reconnect
OpenLogin ==
    /\ pc = "open_login"
    /\ \E o \in {"ok", "error"} :
         IF o = "ok"
         THEN pc' = "check_challenge" /\ UNCHANGED <<exc, exitCode, web>>
         ELSE RaiseInAcq(DriverExc, web)
    /\ UNCHANGED <<status_steps, browser, session>>
    /\ AcqFrame

\* line 153: `if captcha:`
NeedsBypass_Always(captcha) == TRUE
NeedsBypass(captcha) == captcha = "yes"

\* lines 144-151: the login field is looked for; any exception means a
\* challenge is assumed
CheckChallenge ==
    /\ pc = "check_challenge"
    /\ \E found \in BOOLEAN :
         LET captcha == IF found THEN "no" ELSE "yes" IN
         /\ web' = [web EXCEPT !.captcha = captcha]
         /\ pc' = IF NeedsBypass(captcha) THEN "bypass" ELSE "type_username"
    /\ UNCHANGED <<status_steps, browser, session, exc, exitCode>>
    /\ AcqFrame

\* lines 153-161: one call of uc_gui_click_captcha, then the wait for the
\* login form; any exception becomes "Failed to pass Cloudflare challenge"
Bypass ==
    /\ pc = "bypass"
    /\ LET w == [web EXCEPT !.bypassCalls = @ + 1] IN
       \E o \in {"ok", "click_error", "timeout"} :
         IF o = "ok"
         THEN /\ web' = w
              /\ pc' = "type_username"
              /\ UNCHANGED <<exc, exitCode>>
         ELSE RaiseInAcq(Exc("Exception",
                             "Failed to pass Cloudflare challenge"), w)
    /\ UNCHANGED <<status_steps, browser, session>>
    /\ AcqFrame

\* lines 163-167: wait for the username field and type the user name.
\* A TimeoutException is caught at line 179.
TypeUsername ==
    /\ pc = "type_username"
    /\ \E o \in {"ok", "timeout", "error"} :
         CASE o = "ok" -> /\ web' = [web EXCEPT !.usernameTyped = TRUE]
                          /\ pc' = "type_password"
                          /\ UNCHANGED <<exc, exitCode>>
           [] o = "timeout" -> /\ pc' = "login_error"
                               /\ UNCHANGED <<exc, exitCode, web>>
           [] o = "error" -> RaiseInAcq(DriverExc, web)
    /\ UNCHANGED <<status_steps, browser, session>>
    /\ AcqFrame

\* lines 169-172: wait for the password field, type the password, submit
TypePassword ==
    /\ pc = "type_password"
    /\ \E o \in {"ok", "timeout", "error"} :
         CASE o = "ok" -> /\ web' = [web EXCEPT !.passwordTyped = TRUE,
                                                !.submitted = TRUE]
                          /\ pc' = "wait_login"
                          /\ UNCHANGED <<exc, exitCode>>
           [] o = "timeout" -> /\ pc' = "login_error"
                               /\ UNCHANGED <<exc, exitCode, web>>
           [] o = "error" -> RaiseInAcq(DriverExc, web)
    /\ UNCHANGED <<status_steps, browser, session>>
    /\ AcqFrame

\* lines 174-178: wait for the post-login marker
WaitLogin ==
    /\ pc = "wait_login"
    /\ \E o \in {"ok", "timeout", "error"} :
         CASE o = "ok" -> /\ pc' = "nav_ports"
                          /\ UNCHANGED <<exc, exitCode, web>>
           [] o = "timeout" -> /\ pc' = "login_error"
                               /\ UNCHANGED <<exc, exitCode, web>>
           [] o = "error" -> RaiseInAcq(DriverExc, web)
    /\ UNCHANGED <<status_steps, browser, session>>
    /\ AcqFrame

\* lines 179-182: the inline login error is read; if that wait times out
\* too, its TimeoutException reaches the outer handler of line 225
LoginError ==
    /\ pc = "login_error"
    /\ \E o \in {"ok", "timeout", "error"} :
         CASE o = "ok" -> RaiseInAcq(Exc("Exception", "Login failed"), web)
           [] o = "timeout" -> RaiseInAcq(TimeoutExc, web)
           [] o = "error" -> RaiseInAcq(DriverExc, web)
    /\ UNCHANGED <<status_steps, browser, session>>
    /\ AcqFrame

\* lines 184-189: open the ephemeral port page, wait for its container
NavPorts ==
    /\ pc = "nav_ports"
    /\ \E o \in {"ok", "timeout", "error"} :
         CASE o = "ok" -> /\ pc' = "read_button"
                          /\ UNCHANGED <<exc, exitCode, web>>
           [] o = "timeout" -> RaiseInAcq(TimeoutExc, web)
           [] o = "error" -> RaiseInAcq(DriverExc, web)
    /\ UNCHANGED <<status_steps, browser, session>>
    /\ AcqFrame

ButtonTexts == {"Delete Port", "Request Matching Port"}

\* line 196: an existing port has to be deleted first
NeedsDelete_RequestOnly(text) == FALSE
NeedsDelete(text) == text = "Delete Port"

\* lines 191-196: read the label of the port button and branch on it
ReadButton ==
    /\ pc = "read_button"
    /\ \E o \in {"ok", "timeout", "error"} :
         CASE o = "ok" ->
                \E t \in ButtonTexts :
                  /\ web' = [web EXCEPT !.buttonText = t]
                  /\ pc' = IF NeedsDelete(t) THEN "click_delete"
                           ELSE "request"
                  /\ UNCHANGED <<exc, exitCode>>
           [] o = "timeout" -> RaiseInAcq(TimeoutExc, web)
           [] o = "error" -> RaiseInAcq(DriverExc, web)
    /\ UNCHANGED <<status_steps, browser, session>>
    /\ AcqFrame

\* line 198: delete_button.click()
ClickDelete ==
    /\ pc = "click_delete"
    /\ \E o \in {"ok", "error"} :
         IF o = "ok"
         THEN /\ web' = [web EXCEPT !.deleteClicked = TRUE]
              /\ pc' = "wait_deleted"
              /\ UNCHANGED <<exc, exitCode>>
         ELSE RaiseInAcq(DriverExc, web)
    /\ UNCHANGED <<status_steps, browser, session>>
    /\ AcqFrame

\* lines 200-205: wait for the port input to reappear
WaitDeleted ==
    /\ pc = "wait_deleted"
    /\ \E o \in {"ok", "timeout", "error"} :
         CASE o = "ok" -> /\ web' = [web EXCEPT !.deletedObserved = TRUE]
                          /\ pc' = "request"
                          /\ UNCHANGED <<exc, exitCode>>
           [] o = "timeout" ->
                RaiseInAcq(Exc("Exception", "Failed to delete existing port"),
                           [web EXCEPT !.deleteTimedOut = TRUE])
           [] o = "error" -> RaiseInAcq(DriverExc, web)
    /\ UNCHANGED <<status_steps, browser, session>>
    /\ AcqFrame

\* lines 208-211: wait for the request button and click it
RequestPort ==
    /\ pc = "request"
    /\ \E o \in {"ok", "timeout", "error"} :
         CASE o = "ok" -> /\ web' = [web EXCEPT !.requestClicked = TRUE]
                          /\ pc' = "read_port"
                          /\ UNCHANGED <<exc, exitCode>>
           [] o = "timeout" -> RaiseInAcq(TimeoutExc, web)
           [] o = "error" -> RaiseInAcq(DriverExc, web)
    /\ UNCHANGED <<status_steps, browser, session>>
    /\ AcqFrame

\* line 218: the validation predicate
ValidPort(t) == IsDigit(t)

\* lines 213-223: wait for the port display, read and strip its text,
\* validate, mark the ledger, return (the return passes the finally block)
ReadPort ==
    /\ pc = "read_port"
    /\ \/ /\ \E e \in {TimeoutExc, DriverExc} : RaiseInAcq(e, web)
          /\ UNCHANGED status_steps
       \/ \E raw \in Texts :
            LET t == Strip(raw)
                w == [web EXCEPT !.captured = t, !.hasCaptured = TRUE]
            IN IF ~ValidPort(t)
               THEN /\ RaiseInAcq(Exc("ValueError", "Invalid port received"),
                                  w)
                    /\ UNCHANGED status_steps
               ELSE /\ status_steps' =
                          SetStatus(status_steps, "new windscribe port", OK)
                    /\ web' = [w EXCEPT !.retval = t, !.hasPrimary = TRUE,
                                        !.primary = NoExc]
                    /\ pc' = "finally_makedirs"
                    /\ UNCHANGED <<exc, exitCode>>
    /\ UNCHANGED <<browser, session>>
    /\ AcqFrame

\* lines 234-237: the finally block starts; os.makedirs is not guarded, so
\* its OSError replaces the pending return or exception and leaves the
\* function before the session is closed
FinallyMakedirs ==
    /\ pc = "finally_makedirs"
    /\ \E o \in {"ok", "error"} :
         IF o = "ok"
         THEN /\ web' = [web EXCEPT !.makedirs = "ok"]
              /\ pc' = "finally_screenshot"
              /\ UNCHANGED <<exc, exitCode>>
         ELSE /\ web' = [web EXCEPT !.makedirs = "failed"]
              /\ RaiseInRun(Exc("OSError", "OSError"))
    /\ UNCHANGED <<status_steps, browser, session>>
    /\ AcqFrame

\* lines 238-245: save_screenshot; every Exception is logged and dropped
FinallyScreenshot ==
    /\ pc = "finally_screenshot"
    /\ \E o \in {"saved", "failed"} :
         web' = [web EXCEPT !.screenshot = o]
    /\ pc' = "finally_close"
    /\ UNCHANGED <<status_steps, browser, session, exc, exitCode>>
    /\ AcqFrame

\* lines 246-248: the session context is exited; then the function returns
\* its value or the pending exception continues (run() line 413)
FinallyClose ==
    /\ pc = "finally_close"
    /\ session' = "released"
    /\ IF exc = NoExc
       THEN /\ port' = web.retval
            /\ pc' = "sync"
            /\ UNCHANGED <<exc, exitCode>>
       ELSE /\ RaiseInRun(exc)
            /\ UNCHANGED port
    /\ UNCHANGED <<env, config, status_steps, browser, web, qbt, envFile,
                   docker, notifications, interrupts>>

(* -------------------------------------------- update_qbittorrent_port *)
\* Preference sets the torrent client may hold
PrefSets == {[listen_port |-> 6881, upnp |-> TRUE, save_path |-> "a"],
             [listen_port |-> 7, upnp |-> FALSE, save_path |-> "b"]}

SyncFrame == UNCHANGED <<env, config, browser, session, web, port, envFile,
                         docker, notifications, interrupts>>

\* run() line 416 -> lines 265-285: build the client and log in.  A
\* rejected login becomes Exception("qBittorrent login failed: ..."); it
\* and any other exception pass the handler of line 297 and are re-raised.
QbtLogin ==
    /\ pc = "sync"
    /\ LET q == [qbt EXCEPT !.calls = @ + 1, !.arg = port, !.logins = @ + 1]
       IN \E o \in {"ok", "login_failed", "error"} :
            CASE o = "ok" -> /\ qbt' = [q EXCEPT !.loggedIn = TRUE]
                             /\ pc' = "qbt_fetch"
                             /\ UNCHANGED <<exc, exitCode>>
              [] o = "login_failed" ->
                     /\ qbt' = q
                     /\ RaiseInRun(Exc("Exception", "qBittorrent login failed"))
              [] o = "error" ->
                     /\ qbt' = q
                     /\ RaiseInRun(Exc("Exception", "APIConnectionError"))
    /\ UNCHANGED status_steps
    /\ SyncFrame

\* line 289: prefs = client.application.preferences
QbtFetch ==
    /\ pc = "qbt_fetch"
    /\ \/ \E f \in PrefSets :
            /\ qbt' = [qbt EXCEPT !.fetched = <<f>>]
            /\ pc' = "qbt_submit"
            /\ UNCHANGED <<exc, exitCode>>
       \/ /\ RaiseInRun(Exc("Exception", "APIConnectionError"))
          /\ UNCHANGED qbt
    /\ UNCHANGED status_steps
    /\ SyncFrame

\* line 290: the preference set with listen_port overwritten
UpdatedPrefs_OnlyPort(prefs, p) == [listen_port |-> IntOf(p)]
UpdatedPrefs(prefs, p) == [prefs EXCEPT !.listen_port = IntOf(p)]

\* lines 290-295: overwrite listen_port with int(port), submit, mark the
\* ledger
QbtSubmit ==
    /\ pc = "qbt_submit"
    /\ IF ~IntDefined(port)
       THEN /\ RaiseInRun(Exc("ValueError", "invalid literal for int()"))
            /\ UNCHANGED <<qbt, status_steps>>
       ELSE \E o \in {"ok", "error"} :
              IF o = "ok"
              THEN /\ qbt' = [qbt EXCEPT !.submitted =
                                 <<UpdatedPrefs(qbt.fetched[1], port)>>]
                   /\ status_steps' = SetStatus(status_steps,
                                           "update qbittorrent port", OK)
                   /\ pc' = "docker"
                   /\ UNCHANGED <<exc, exitCode>>
              ELSE /\ RaiseInRun(Exc("Exception", "APIConnectionError"))
                   /\ UNCHANGED <<qbt, status_steps>>
    /\ SyncFrame

(* ---------------------------------------------- update_docker_network *)
KEY == "FIREWALL_VPN_INPUT_PORTS"
NL == "\n"

\* Contents the .env file may have, as sequences of tokens
SampleFiles ==
    { <<KEY, "=", "7", NL, "X", NL>>,       \* the key on the first line
      <<"X", NL>>,                          \* no line with the key
      <<"X", NL, KEY, "=", "0">> }          \* last line, no final newline

\* f.readlines(): split after every newline, keeping it
RECURSIVE ReadLines(_)
ReadLines(c) ==
    IF c = << >> THEN << >>
    ELSE LET nls == {i \in 1..Len(c) : c[i] = NL} IN
         IF nls = {} THEN <<c>>
         ELSE LET i == CHOOSE j \in nls : \A k \in nls : j <= k
              IN <<SubSeq(c, 1, i)>> \o ReadLines(SubSeq(c, i + 1, Len(c)))

\* line 354: line.startswith('FIREWALL_VPN_INPUT_PORTS=')
StartsWithKey(line) == Len(line) >= 2 /\ line[1] = KEY /\ line[2] = "="

\* lines 354-357: what is written for one line
RewriteLine_NoNewline(line, p) ==
    IF StartsWithKey(line) THEN <<KEY, "=">> \o p ELSE line
RewriteLine(line, p) ==
    IF StartsWithKey(line) THEN <<KEY, "=">> \o p \o <<NL>> ELSE line

RECURSIVE Concat(_)
Concat(ls) == IF ls = << >> THEN << >> ELSE Head(ls) \o Concat(Tail(ls))

\* lines 348-357: the content written for the content read
RewriteFile(c, p) ==
    LET ls == ReadLines(c)
    IN Concat([i \in 1..Len(ls) |-> RewriteLine(ls[i], p)])

DockerFrame == UNCHANGED <<env, config, browser, session, web, port, qbt,
                           notifications, interrupts>>

\* run() line 419 calls update_docker_network unconditionally; line 345
\* looks up config['docker_path'] (KeyError when it is not configured);
\* lines 347-362 read and rewrite the file; every exception of the
\* rewrite becomes Exception("Failed to update Docker .env file: ...")
UpdateDockerEnv ==
    /\ pc = "docker"
    /\ LET d == [docker EXCEPT !.calls = @ + 1] IN
       /\ docker' = d
       /\ IF "docker_path" \notin DOMAIN config
          THEN /\ RaiseInRun(Exc("KeyError", "'docker_path'"))
               /\ UNCHANGED <<envFile, status_steps>>
          ELSE \/ /\ envFile' = [envFile EXCEPT !.attempts = @ + 1]
                  /\ RaiseInRun(Exc("Exception",
                                    "Failed to update Docker .env file"))
                  /\ UNCHANGED status_steps
               \/ \E c \in SampleFiles :
                    \/ /\ envFile' = [envFile EXCEPT !.attempts = @ + 1,
                                        !.read = TRUE, !.before = c,
                                        !.after = c]
                       /\ RaiseInRun(Exc("Exception",
                                         "Failed to update Docker .env file"))
                       /\ UNCHANGED status_steps
                    \/ /\ envFile' = [envFile EXCEPT !.attempts = @ + 1,
                                        !.read = TRUE, !.before = c,
                                        !.written = TRUE,
                                        !.after = RewriteFile(c, port)]
                       /\ status_steps' = SetStatus(status_steps,
                                                    "update docker env", OK)
                       /\ pc' = "restart"
                       /\ UNCHANGED <<exc, exitCode>>
    /\ DockerFrame

\* line 365: docker compose restart; the return code is not looked at,
\* only a failure to start the command raises
RestartContainers ==
    /\ pc = "restart"
    /\ \E o \in {"ok", "error"} :
         IF o = "ok"
         THEN /\ docker' = [docker EXCEPT !.restarts = @ + 1, !.svc = 1]
              /\ pc' = "wait_healthy"
              /\ UNCHANGED <<exc, exitCode>>
         ELSE /\ RaiseInRun(Exc("FileNotFoundError", "docker"))
              /\ UNCHANGED docker
    /\ UNCHANGED <<status_steps, envFile>>
    /\ DockerFrame

\* The modelled clock (time.time() - start_time) stops at ClockCap; the
\* loop of lines 390-405 leaves well before it
ClockCap == 2 * health_timeout

\* line 390: the loop condition of wait_for_healthy_docker_container
LoopContinues_Forever(elapsed, timeout) == TRUE
LoopContinues_Inclusive(elapsed, timeout) == elapsed <= timeout
LoopContinues(elapsed, timeout) == elapsed < timeout

\* lines 400-403: what a poll makes the function return
PollReturns(status) ==
    CASE status = "healthy" -> "True"
      [] status = "unhealthy" -> "False"
      [] OTHER -> "none"

\* lines 388-407: one iteration of the polling loop, or the timeout return
WaitPoll ==
    /\ pc = "wait_healthy"
    /\ docker.elapsed <= ClockCap
    /\ IF ~LoopContinues(docker.elapsed, health_timeout)
       THEN /\ docker' = [docker EXCEPT !.ret = "False"]
            /\ pc' = "wait_return"
       ELSE \E st \in HealthStatuses, dur \in 0..MaxPollDur :
              LET d == [docker EXCEPT
                          !.polls = @ + 1,
                          !.lastAt = docker.elapsed,
                          !.lastStatus = st,
                          !.sawTerminal =
                              @ \/ docker.lastStatus \in {"healthy",
                                                          "unhealthy"},
                          !.polled = IF docker.polls = 0
                                     THEN Append(@, services[docker.svc])
                                     ELSE @]
              IN IF PollReturns(st) # "none"
                 THEN /\ docker' = [d EXCEPT !.ret = PollReturns(st),
                                             !.elapsed = @ + dur]
                      /\ pc' = "wait_return"
                 ELSE /\ docker' = [d EXCEPT !.sleeps = @ + 1,
                                     !.elapsed = @ + dur + poll_interval]
                      /\ pc' = "wait_healthy"
    /\ UNCHANGED <<status_steps, envFile, exc, exitCode>>
    /\ DockerFrame

\* lines 368-381: `if wait(...): log else: raise`
HealthBranch_Ignore(ret) == "proceed"
HealthBranch(ret) == IF ret = "True" THEN "proceed" ELSE "raise"

\* lines 368-383: the caller's branch on the returned value
WaitReturn ==
    /\ pc = "wait_return"
    /\ LET outcome == IF docker.ret = "True" THEN "healthy"
                      ELSE IF docker.lastStatus = "unhealthy"
                           THEN "unhealthy" ELSE "timeout"
           d == [docker EXCEPT !.results =
                     Append(@, <<services[docker.svc], outcome>>)]
       IN IF HealthBranch(docker.ret) = "proceed"
          THEN IF docker.svc < Len(services)
               THEN /\ docker' = [d EXCEPT !.svc = @ + 1, !.elapsed = 0,
                                    !.polls = 0, !.lastAt = 0,
                                    !.lastStatus = "none",
                                    !.sawTerminal = FALSE, !.sleeps = 0,
                                    !.ret = "none"]
                    /\ pc' = "wait_healthy"
                    /\ UNCHANGED <<status_steps, exc, exitCode>>
               ELSE /\ docker' = d
                    /\ status_steps' = SetStatus(status_steps,
                                           "restart docker containers", OK)
                    /\ pc' = "report"
                    /\ UNCHANGED <<exc, exitCode>>
          ELSE /\ docker' = d
               /\ RaiseInRun(Exc("Exception",
                                 HealthFailureMsg(services[docker.svc])))
               /\ UNCHANGED status_steps
    /\ UNCHANGED envFile
    /\ DockerFrame

(* ------------------------------------- send_discord_notification, run *)
\* lines 311-334: what becomes of one call: no POST without a webhook
\* URL, otherwise one POST that succeeds or fails; a failure is logged
PostOutcomes(cfg) ==
    IF "discord_webhook_url" \notin DOMAIN cfg
       \/ ~Truthy(cfg["discord_webhook_url"])
    THEN {"skipped"}
    ELSE {"ok", "failed"}

Notification_NoPort(is_error, text, p, ledger, posted) ==
    [is_error |-> is_error, text |-> text, port |-> << >>, ledger |-> ledger,
     posted |-> posted]
Notification(is_error, text, p, ledger, posted) ==
    [is_error |-> is_error, text |-> text, port |-> p, ledger |-> ledger,
     posted |-> posted]

ReportFrame == UNCHANGED <<env, config, status_steps, browser, session, web,
                           port, qbt, envFile, docker, interrupts, exitCode>>

\* run() lines 421-426: the success report with the port and the ledger
ReportSuccess_Escalates ==
    /\ pc = "report"
    /\ \E o \in PostOutcomes(config) :
         /\ notifications' = Append(notifications,
                Notification(FALSE, "Port forwarding updated successfully!",
                             port, status_steps, o))
         /\ IF o = "failed"
            THEN /\ pc' = "except"
                 /\ exc' = Exc("Exception", "HTTPError")
            ELSE /\ pc' = "return0"
                 /\ UNCHANGED exc
    /\ ReportFrame
ReportSuccess ==
    /\ pc = "report"
    /\ \E o \in PostOutcomes(config) :
         notifications' = Append(notifications,
             Notification(FALSE, "Port forwarding updated successfully!",
                          port, status_steps, o))
    /\ pc' = "return0"
    /\ UNCHANGED exc
    /\ ReportFrame

\* run() lines 444-450: the failure report with str(e) and the ledger
ReportFailure_Silent ==
    /\ pc = "except"
    /\ pc' = "return1"
    /\ UNCHANGED <<exc, notifications>>
    /\ ReportFrame
ReportFailure ==
    /\ pc = "except"
    /\ \E o \in PostOutcomes(config) :
         notifications' = Append(notifications,
             Notification(TRUE, exc.msg, << >>, status_steps, o))
    /\ pc' = "return1"
    /\ UNCHANGED exc
    /\ ReportFrame

\* run() lines 432 and 452, main() line 461: sys.exit(manager.run())
Return ==
    /\ pc \in {"return0", "return1"}
    /\ exitCode' = IF pc = "return0" THEN 0 ELSE 1
    /\ pc' = "done"
    /\ UNCHANGED <<env, config, status_steps, exc, browser, session, web,
                   port, qbt, envFile, docker, notifications, interrupts>>

(* ------------------------------------------------------ KeyboardInterrupt *)
\* Positions inside the try body of get_windscribe_port (lines 136-223)
AcqTryPcs == {"init_browser", "open_login", "check_challenge", "bypass",
              "type_username", "type_password", "wait_login", "login_error",
              "nav_ports", "read_button", "click_delete", "wait_deleted",
              "request", "read_port"}
\* Positions inside its finally block (lines 234-248)
AcqFinallyPcs == {"finally_makedirs", "finally_screenshot", "finally_close"}

\* A KeyboardInterrupt is raised at the current position.  It is not an
\* Exception: inside the try body of get_windscribe_port it passes the
\* except clauses and runs the finally block; anywhere else (the finally
\* block included) nothing catches it before main() lines 462-464.
Interrupt ==
    /\ pc # "done"
    /\ interrupts < MaxInterrupts
    /\ interrupts' = interrupts + 1
    /\ IF pc \in AcqTryPcs
       THEN RaiseInAcq(Exc("KeyboardInterrupt", "KeyboardInterrupt"), web)
       ELSE /\ RaiseInRun(Exc("KeyboardInterrupt", "KeyboardInterrupt"))
            /\ UNCHANGED web
    /\ UNCHANGED <<env, config, status_steps, browser, session, port, qbt,
                   envFile, docker, notifications>>

(* ------------------------------------------------------------------- Next *)
Next ==
    \/ Construct
    \/ StartRun
    \/ InitBrowser
    \/ OpenLogin
    \/ CheckChallenge
    \/ Bypass
    \/ TypeUsername
    \/ TypePassword
    \/ WaitLogin
    \/ LoginError
    \/ NavPorts
    \/ ReadButton
    \/ ClickDelete
    \/ WaitDeleted
    \/ RequestPort
    \/ ReadPort
    \/ FinallyMakedirs
    \/ FinallyScreenshot
    \/ FinallyClose
    \/ QbtLogin
    \/ QbtFetch
    \/ QbtSubmit
    \/ UpdateDockerEnv
    \/ RestartContainers
    \/ WaitPoll
    \/ WaitReturn
    \/ ReportSuccess
    \/ ReportFailure
    \/ Return
    \/ Interrupt

Spec == Init /\ [][Next]_vars

\* The steps of the program itself, without the user's interrupt
ProgramStep ==
    \/ Construct
    \/ StartRun
    \/ InitBrowser
    \/ OpenLogin
    \/ CheckChallenge
    \/ Bypass
    \/ TypeUsername
    \/ TypePassword
    \/ WaitLogin
    \/ LoginError
    \/ NavPorts
    \/ ReadButton
    \/ ClickDelete
    \/ WaitDeleted
    \/ RequestPort
    \/ ReadPort
    \/ FinallyMakedirs
    \/ FinallyScreenshot
    \/ FinallyClose
    \/ QbtLogin
    \/ QbtFetch
    \/ QbtSubmit
    \/ UpdateDockerEnv
    \/ RestartContainers
    \/ WaitPoll
    \/ WaitReturn
    \/ ReportSuccess
    \/ ReportFailure
    \/ Return

\* The process is a single thread that is always scheduled: whatever step
\* it can take next (a wait returning, a call completing, the clock
\* advancing in time.sleep) is eventually taken.  Nothing obliges the
\* user to interrupt.
FairSpec == Spec /\ WF_vars(ProgramStep)

(* ------------------------------------------- the rewrite on its own *)
\* The file rewrite of update_docker_network (lines 347-362) as a function
\* of the content on disk and the port: every content of up to MaxFileLen
\* tokens, every port that can reach line 345 (accepted by line 218 and
\* by int() at line 290), and the rewrite applied by two successive runs.
FileTokens == {KEY, "=", NL, "7", "X"}
FileContents == UNION {[1..n -> FileTokens] : n \in 0..MaxFileLen}
PortTexts == {t \in Texts : ValidPort(t) /\ IntDefined(t)}

InitRewrite ==
    /\ env = [k \in AllKeys |-> "v"]
    /\ config = LoadedConfig(env)
    /\ status_steps = SetStatus(SetStatus(InitialLedger(env),
                           "new windscribe port", OK),
                           "update qbittorrent port", OK)
    /\ pc = "rewrite_first"
    /\ exc = NoExc
    /\ browser = "sb"
    /\ session = "released"
    /\ web = NoWeb
    /\ port \in PortTexts
    /\ qbt = NoQbt
    /\ \E c \in FileContents :
          envFile = [NoFile EXCEPT !.before = c, !.after = c]
    /\ docker = NoDocker
    /\ notifications = << >>
    /\ interrupts = 0
    /\ exitCode = -1

\* lines 347-360: read the content on disk, write the rewritten content
ApplyRewrite ==
    /\ pc \in {"rewrite_first", "rewrite_second"}
    /\ envFile' = [envFile EXCEPT !.attempts = @ + 1, !.read = TRUE,
                      !.written = TRUE,
                      !.after = RewriteFile(envFile.after, port)]
    /\ status_steps' = SetStatus(status_steps, "update docker env", OK)
    /\ pc' = IF pc = "rewrite_first" THEN "rewrite_second"
             ELSE "rewrite_done"
    /\ UNCHANGED <<env, config, exc, browser, session, web, port, qbt,
                   docker, notifications, interrupts, exitCode>>

NextRewrite == ApplyRewrite

SpecRewrite == InitRewrite /\ [][NextRewrite]_vars

(* ================================================================ claims *)

\* C1: the Network Stack Updater is run only if docker_path is configured;
\* in a run without docker_path in which acquisition and synchronization
\* succeed and that is not interrupted, no config-file access, restart or
\* health poll is attempted, the success report with the new port is
\* dispatched, and the exit code is 0.
C1_NoDockerPathSucceeds ==
    env["docker_path"] \in {"None", ""} =>
        /\ envFile.attempts = 0
        /\ docker.restarts = 0
        /\ docker.polled = << >>
        /\ ( /\ pc = "done"
             /\ interrupts = 0
             /\ StatusOf(status_steps, "new windscribe port") = OK
             /\ StatusOf(status_steps, "update qbittorrent port") = OK )
           => /\ exitCode = 0
              /\ \E i \in 1..Len(notifications) :
                    /\ ~notifications[i].is_error
                    /\ notifications[i].port = port

\* C2: for each required key, if it is missing (None) or empty at startup
\* then no browser session is opened, no torrent-client call is made, no
\* config-file access or restart is attempted, and a run that is not
\* interrupted ends with a ConfigurationError and exit code 1.
C2_MissingKeyStopsEverything ==
    \A k \in {"ws_username", "ws_password", "qbt_username", "qbt_password",
              "qbt_host", "qbt_port"} :
        env[k] \in {"None", ""} =>
            /\ browser = "None"
            /\ session = "unopened"
            /\ web = NoWeb
            /\ qbt.calls = 0
            /\ qbt.logins = 0
            /\ envFile.attempts = 0
            /\ docker.calls = 0
            /\ docker.restarts = 0
            /\ docker.polled = << >>
            /\ (pc = "done" /\ interrupts = 0) =>
                   /\ exitCode = 1
                   /\ exc.type = "ConfigurationError"

\* C2 witness: only qbt_port is empty, and the process has exited with 1
C2_Witness ==
    /\ pc = "done"
    /\ exitCode = 1
    /\ exc.type = "ConfigurationError"
    /\ env["qbt_port"] = ""
    /\ \A k \in RequiredKeys \ {"qbt_port"} : env[k] = "v"

\* C3: when a required key is missing and discord_webhook_url is set, a
\* failure notification is dispatched (a POST is attempted) before the
\* process exits with code 1.
C3_ConfigErrorIsNotified ==
    ( /\ pc = "done"
      /\ interrupts = 0
      /\ \E k \in RequiredKeys : env[k] \in {"None", ""}
      /\ env["discord_webhook_url"] = "v" )
    => /\ exitCode = 1
       /\ \E i \in 1..Len(notifications) :
             /\ notifications[i].is_error
             /\ notifications[i].posted \in {"ok", "failed"}

\* C4: once a step of run() has raised a failure, no later step is
\* started: synchronization is only ever started after acquisition
\* returned, propagation only after synchronization succeeded, and while
\* an exception is in flight nothing more is done to the torrent client,
\* the config file, the containers or the ledger.  A rejected
\* torrent-client login leaves the acquisition entry success, the
\* synchronization entry not success, and no preference fetch, file
\* access or restart.  A run that ends this way without being interrupted
\* has made exactly one notification call, a failure report carrying the
\* exception's message and the ledger as it is, with one POST attempted
\* iff a webhook is configured, and has returned 1.
C4_State ==
    /\ qbt.calls > 0 =>
          /\ StatusOf(status_steps, "new windscribe port") = OK
          /\ port = web.retval
          /\ port # << >>
    /\ docker.calls > 0 =>
          /\ StatusOf(status_steps, "update qbittorrent port") = OK
          /\ qbt.submitted # << >>
    /\ exc.msg = "qBittorrent login failed" =>
          /\ StatusOf(status_steps, "new windscribe port") = OK
          /\ StatusOf(status_steps, "update qbittorrent port") # OK
          /\ qbt.fetched = << >>
          /\ qbt.submitted = << >>
          /\ docker.calls = 0
          /\ envFile.attempts = 0
          /\ docker.restarts = 0
    /\ ( /\ pc = "done"
         /\ interrupts = 0
         /\ exc.type \notin {"none", "ConfigurationError"} )
       => /\ exitCode = 1
          /\ Len(notifications) = 1
          /\ notifications[1].is_error
          /\ notifications[1].text = exc.msg
          /\ notifications[1].ledger = status_steps
          /\ notifications[1].posted \in {"ok", "failed"}
                 <=> env["discord_webhook_url"] = "v"

C4_Step ==
    exc.type \notin {"none", "KeyboardInterrupt"} =>
        /\ UNCHANGED <<qbt, envFile, docker, port, status_steps>>
        /\ web'.requestClicked = web.requestClicked
        /\ web'.deleteClicked = web.deleteClicked
        /\ web'.usernameTyped = web.usernameTyped
        /\ web'.submitted = web.submitted

C4_FailureStopsRun == [][C4_State' /\ C4_Step]_vars

\* C4 witness: the torrent client rejected the login and run() returned 1
C4_Witness ==
    /\ pc = "done"
    /\ exitCode = 1
    /\ interrupts = 0
    /\ exc.msg = "qBittorrent login failed"
    /\ Len(notifications) = 1
    /\ Truthy(env["docker_path"])

\* C5: after the restart the services are polled in the order gluetun,
\* qbittorrent, prowlarr, each only after every earlier one was observed
\* healthy; when a service is unhealthy or times out no later service is
\* polled, the failure raised names that service, 'restart docker
\* containers' stays not-success while 'update docker env' is success,
\* and a run that is not interrupted returns 1.
C5_HealthOrder ==
    LET order == <<"gluetun", "qbittorrent", "prowlarr">>
        msg == [s \in {"gluetun", "qbittorrent", "prowlarr"} |->
                  CASE s = "gluetun" -> "Gluetun failed to become healthy"
                    [] s = "qbittorrent" ->
                           "qBittorrent failed to become healthy"
                    [] s = "prowlarr" -> "Prowlarr failed to become healthy"]
    IN
    /\ Len(docker.polled) <= 3
    /\ docker.polled = SubSeq(order, 1, Len(docker.polled))
    /\ docker.polled # << >> => docker.restarts = 1
    /\ Len(docker.results) <= Len(docker.polled)
    /\ \A i \in 1..Len(docker.polled) :
          \A j \in 1..(i - 1) : docker.results[j] = <<order[j], "healthy">>
    /\ \A i \in 1..Len(docker.results) :
          /\ docker.results[i][1] = order[i]
          /\ docker.results[i][2] # "healthy" =>
                /\ Len(docker.results) = i
                /\ Len(docker.polled) = i
                /\ StatusOf(status_steps, "restart docker containers") = FAIL
                /\ StatusOf(status_steps, "update docker env") = OK
                /\ interrupts = 0 =>
                      /\ exc.msg = msg[order[i]]
                      /\ pc \in {"except", "return1", "done"}
                      /\ pc = "done" => exitCode = 1
    /\ StatusOf(status_steps, "restart docker containers") = OK =>
          docker.results = [i \in 1..3 |-> <<order[i], "healthy">>]

\* C5 witness: gluetun was healthy, qbittorrent reported unhealthy, the
\* run ended with 1 and prowlarr was never polled
C5_Witness ==
    /\ pc = "done"
    /\ exitCode = 1
    /\ docker.results = << <<"gluetun", "healthy">>,
                           <<"qbittorrent", "unhealthy">> >>
    /\ docker.polled = <<"gluetun", "qbittorrent">>

\* C6: wait_for_healthy_docker_container(name, timeout=60) takes every
\* poll less than 60 time-units after its start, sleeps 5 time-units
\* after each poll that is neither 'healthy' nor 'unhealthy', and never
\* polls again after a 'healthy' or 'unhealthy' poll.  It returns True
\* iff its last poll returned 'healthy' (so: iff some poll before the
\* timeout is 'healthy' and all earlier ones were neither); a service
\* healthy on the first poll is reported after one poll and no sleep; an
\* 'unhealthy' poll ends polling at once with False; a service that
\* reports neither for 60 time-units is reported False.
C6_HealthPolling ==
    LET returned == docker.ret # "none"
        terminal == {"healthy", "unhealthy"}
    IN
    /\ docker.polls > 0 => docker.lastAt < 60
    /\ ~docker.sawTerminal
    /\ 5 * docker.sleeps <= docker.elapsed
    /\ docker.elapsed <= (5 + MaxPollDur) * docker.sleeps + MaxPollDur
    /\ ~returned =>
          /\ docker.sleeps = docker.polls
          /\ docker.lastStatus \notin terminal
    /\ returned =>
          /\ docker.polls >= 1
          /\ docker.ret = "True" <=> docker.lastStatus = "healthy"
          /\ docker.lastStatus \in terminal =>
                docker.sleeps = docker.polls - 1
          /\ (docker.lastStatus = "healthy" /\ docker.polls = 1) =>
                (docker.sleeps = 0 /\ docker.ret = "True")
          /\ docker.lastStatus = "unhealthy" => docker.ret = "False"
          /\ docker.lastStatus \notin terminal =>
                /\ docker.ret = "False"
                /\ docker.elapsed >= 60
                /\ docker.sleeps = docker.polls

\* C6 witness: twelve polls, none healthy or unhealthy, then the timeout
C6_Witness ==
    /\ pc = "wait_return"
    /\ docker.ret = "False"
    /\ docker.lastStatus = "starting"
    /\ docker.polls = 12
    /\ docker.lastAt = 55

\* C7: with the button labeled "Delete Port" the request click happens
\* only after the delete click and after the deleted state was observed;
\* if the deleted state is not observed in time the request click never
\* happens and acquisition fails; with any other label there is no delete
\* click, only the request click.
C7_DeleteThenRequest ==
    /\ (web.requestClicked /\ web.buttonText = "Delete Port") =>
          (web.deleteClicked /\ web.deletedObserved)
    /\ web.deletedObserved => web.deleteClicked
    /\ web.deleteClicked => web.buttonText = "Delete Port"
    /\ web.requestClicked =>
          web.buttonText \in {"Delete Port", "Request Matching Port"}
    /\ web.deleteTimedOut =>
          /\ web.deleteClicked
          /\ ~web.deletedObserved
          /\ ~web.requestClicked
          /\ ~web.hasCaptured
          /\ port = << >>
          /\ StatusOf(status_steps, "new windscribe port") # OK
          /\ exc # NoExc
          /\ qbt.calls = 0

\* C7 witness: an existing port was deleted, then the new one requested
C7_Witness ==
    /\ web.buttonText = "Delete Port"
    /\ web.deleteClicked
    /\ web.deletedObserved
    /\ web.requestClicked

\* C8: the captured, trimmed text is returned as the port and 'new
\* windscribe port' is marked success iff the text is non-empty and all
\* its characters are among 0-9; for any other text the entry stays
\* not-success and the Synchronizer is never called.
C8_OnlyAsciiDigitsAccepted ==
    web.hasCaptured =>
        LET ascii == /\ Len(web.captured) > 0
                     /\ \A i \in 1..Len(web.captured) :
                           web.captured[i] \in {"0", "7"}
        IN /\ StatusOf(status_steps, "new windscribe port") = OK <=> ascii
           /\ ascii => web.retval = web.captured
           /\ ~ascii => /\ port = << >>
                        /\ qbt.calls = 0
                        /\ exc # NoExc

\* C9: whenever control is outside get_windscribe_port the browser
\* session is not open: every exit path on which a session was opened
\* has released it.
C9_SessionReleasedOnExit ==
    session = "open" => pc \in AcqTryPcs \cup AcqFinallyPcs

\* C10: when creating the image directory or saving the screenshot fails
\* (and the run is not interrupted), get_windscribe_port still returns the
\* port it was returning, or raises the failure it was raising, and the
\* browser session is released.
C10_ScreenshotFailureIsHarmless ==
    ( /\ web.makedirs = "failed" \/ web.screenshot = "failed"
      /\ pc \in {"sync", "except"}
      /\ qbt.calls = 0
      /\ interrupts = 0 )
    => /\ session = "released"
       /\ IF web.primary = NoExc
          THEN pc = "sync" /\ port = web.retval /\ exc = NoExc
          ELSE pc = "except" /\ exc = web.primary

\* C11: a notification call never changes the course of the run, whatever
\* becomes of the POST (sent, failed, or skipped for want of a webhook):
\* the call leaves the ledger and the exception in flight as they are and
\* is followed by the return of 0 after a success report and of 1 after
\* a failure report; a run that is not interrupted exits with exactly
\* that code, with the ledger the report carried (so a run that got as
\* far as the success report exits with 0 also when the POST failed).
C11_State ==
    (pc = "done" /\ interrupts = 0 /\ notifications # << >>) =>
        /\ Len(notifications) = 1
        /\ exitCode = IF notifications[1].is_error THEN 1 ELSE 0
        /\ notifications[1].ledger = status_steps

C11_Step ==
    notifications' # notifications =>
        /\ Len(notifications') = Len(notifications) + 1
        /\ status_steps' = status_steps
        /\ exc' = exc
        /\ exitCode' = exitCode
        /\ pc' = IF pc = "report" THEN "return0" ELSE "return1"

C11_NotificationNeverEscalates == [][C11_State' /\ C11_Step]_vars

\* C11 witness: every step succeeded, the POST of the success report
\* failed, and the process exited with 0
C11_Witness ==
    /\ pc = "done"
    /\ exitCode = 0
    /\ Len(notifications) = 1
    /\ ~notifications[1].is_error
    /\ notifications[1].posted = "failed"
    /\ StatusOf(status_steps, "restart docker containers") = "ok"

\* C12: after a user interrupt no step is started, no torrent-client,
\* config-file or docker call is made, nothing more is typed or clicked
\* in the browser, no notification is dispatched, and the process exits
\* with 130, never with 0 or 1.
C12_InterruptExits130 ==
    [][interrupts > 0 =>
          /\ notifications' = notifications
          /\ UNCHANGED <<qbt, envFile, docker, status_steps, port>>
          /\ web'.requestClicked = web.requestClicked
          /\ web'.deleteClicked = web.deleteClicked
          /\ web'.submitted = web.submitted
          /\ pc' # "except"
          /\ pc' = "done" => exitCode' = 130]_vars

\* C13: the rewrite is idempotent: for every content and every port the
\* second application leaves the file exactly as the first one left it;
\* the rewritten file has as many lines as the original, and each of its
\* lines with the key is the key, '=', the port and a newline (the port
\* is there once, nothing is appended or duplicated).
C13_State ==
    pc \in {"rewrite_second", "rewrite_done"} =>
        LET b == ReadLines(envFile.before)
            a == ReadLines(envFile.after)
        IN /\ Len(a) = Len(b)
           /\ \A i \in 1..Len(a) :
                 /\ (Len(b[i]) >= 2 /\ b[i][1] = KEY /\ b[i][2] = "=")
                       <=> (Len(a[i]) >= 2 /\ a[i][1] = KEY /\ a[i][2] = "=")
                 /\ (Len(b[i]) >= 2 /\ b[i][1] = KEY /\ b[i][2] = "=")
                       => a[i] = <<KEY, "=">> \o port \o <<NL>>

C13_Step ==
    pc = "rewrite_second" => envFile'.after = envFile.after

C13_RewriteIdempotent == [][C13_State' /\ C13_Step]_vars

\* C13 witness: the key line was last and had no newline; two
\* applications with port 7 were made
C13_Witness ==
    /\ pc = "rewrite_done"
    /\ port = <<"7">>
    /\ envFile.before = <<KEY, "=", "X">>
    /\ envFile.after = <<KEY, "=", "7", NL>>

\* C14: the rewrite changes one line only, the line with the key: every
\* other line is written back unchanged in its position, the number of
\* lines is unchanged, and the file ends with a newline after the rewrite
\* iff it did before.
C14_RewriteFrame ==
    pc = "rewrite_second" =>
        LET b == ReadLines(envFile.before)
            a == ReadLines(envFile.after)
            endsNL(c) == c # << >> /\ c[Len(c)] = NL
        IN /\ Len(a) = Len(b)
           /\ \A i \in 1..Len(b) :
                 ~(Len(b[i]) >= 2 /\ b[i][1] = KEY /\ b[i][2] = "=")
                     => a[i] = b[i]
           /\ Cardinality({i \in 1..Len(b) : a[i] # b[i]}) <= 1
           /\ endsNL(envFile.after) <=> endsNL(envFile.before)

\* C15: the preference set update_qbittorrent_port submits has the fields
\* of the set it fetched, with the same values, except listen_port, which
\* is the number the acquired port's digits denote; nothing is fetched or
\* submitted unless the login was accepted.
C15_OnlyListenPortChanges ==
    /\ qbt.submitted # << >> =>
          /\ qbt.fetched # << >>
          /\ LET f == qbt.fetched[1]
                 s == qbt.submitted[1]
                 v[i \in 0..Len(port)] ==
                     IF i = 0 THEN 0
                     ELSE 10 * v[i - 1] + (CASE port[i] = "0" -> 0
                                             [] port[i] = "7" -> 7)
             IN /\ DOMAIN s = DOMAIN f
                /\ \A k \in DOMAIN f \ {"listen_port"} : s[k] = f[k]
                /\ s.listen_port = v[Len(port)]
    /\ ~qbt.loggedIn => (qbt.fetched = << >> /\ qbt.submitted = << >>)
    /\ exc.msg = "qBittorrent login failed" =>
          (~qbt.loggedIn /\ qbt.logins = 1)

\* C15 witness: port "07" was acquired and listen_port went from 6881 to 7
C15_Witness ==
    /\ port = <<"0", "7">>
    /\ qbt.fetched = <<[listen_port |-> 6881, upnp |-> TRUE,
                        save_path |-> "a"]>>
    /\ qbt.submitted = <<[listen_port |-> 7, upnp |-> TRUE,
                          save_path |-> "a"]>>

\* C16: every run terminates: the process eventually stays at a terminal
\* outcome with exit code 0, 1 or 130, and on the way it enters
\* acquisition, synchronization and propagation at most once each and
\* repeats no login, challenge bypass, file rewrite or restart.
C16_Terminates ==
    /\ <>[](pc = "done" /\ exitCode \in {0, 1, 130})
    /\ [](/\ web.calls <= 1
          /\ web.bypassCalls <= 1
          /\ qbt.calls <= 1
          /\ qbt.logins <= 1
          /\ docker.calls <= 1
          /\ envFile.attempts <= 1
          /\ docker.restarts <= 1
          /\ Len(notifications) <= 1)

\* C16 witness: a run that went through all three steps once, the last
\* service timing out after twelve polls, and exited with 1
C16_Witness ==
    /\ pc = "done"
    /\ exitCode = 1
    /\ web.calls = 1
    /\ qbt.calls = 1
    /\ docker.calls = 1
    /\ docker.svc = 3
    /\ docker.polls = 12
    /\ docker.lastStatus = "starting"

\* C17: when no challenge is detected the bypass primitive is never
\* invoked; when one is detected it is invoked exactly once; when the
\* bypass or the wait for the login form after it fails, acquisition
\* fails with "Failed to pass Cloudflare challenge", the bypass is not
\* invoked again, and neither user name nor password is typed or
\* submitted.
C17_ChallengeGatesLogin ==
    /\ web.captcha = "no" => web.bypassCalls = 0
    /\ web.captcha = "unknown" =>
          (web.bypassCalls = 0 /\ ~web.usernameTyped)
    /\ web.captcha = "yes" =>
          /\ web.bypassCalls <= 1
          /\ (pc # "bypass" /\ exc.type # "KeyboardInterrupt"
              /\ interrupts = 0) => web.bypassCalls = 1
          /\ web.usernameTyped => web.bypassCalls = 1
    /\ web.primary.msg = "Failed to pass Cloudflare challenge" =>
          /\ web.captcha = "yes"
          /\ web.bypassCalls = 1
          /\ ~web.usernameTyped
          /\ ~web.passwordTyped
          /\ ~web.submitted
          /\ ~web.requestClicked
          /\ port = << >>
          /\ qbt.calls = 0
          /\ StatusOf(status_steps, "new windscribe port") # "ok"
          /\ pc \notin {"bypass", "type_username", "type_password",
                        "wait_login", "sync", "report", "return0"}
    /\ web.passwordTyped => web.usernameTyped

\* C17 witness: a challenge was detected, the bypass was invoked once and
\* failed, and the run ended with 1 without any credential typed
C17_Witness ==
    /\ pc = "done"
    /\ exitCode = 1
    /\ web.captcha = "yes"
    /\ web.bypassCalls = 1
    /\ exc.msg = "Failed to pass Cloudflare challenge"
    /\ ~web.usernameTyped

\* C18: the status ledger only moves forward: its step names are the
\* fixed initial ones (two, or four when a network-stack path is
\* configured), in order; an entry that is success stays success; an
\* entry is success only if its step has returned successfully in this
\* run (acquisition handed its port to run(), the preferences were
\* submitted, the file was written, the restart was issued and the three
\* services were found healthy); the success entries form a prefix of the
\* order of the steps.
C18_State ==
    LET n == Len(status_steps)
        names == [i \in 1..n |-> status_steps[i][1]]
    IN
    /\ status_steps # << >> =>
          /\ names \in {<<"new windscribe port", "update qbittorrent port">>,
                        <<"new windscribe port", "update qbittorrent port",
                          "update docker env", "restart docker containers">>}
          /\ n = 4 <=> "docker_path" \in DOMAIN config
    /\ \A i, j \in 1..n :
          (i < j /\ status_steps[j][2] = "ok") => status_steps[i][2] = "ok"
    /\ interrupts = 0 =>
          /\ (StatusOf(status_steps, "new windscribe port") = "ok"
              /\ pc \notin {"finally_makedirs", "finally_screenshot",
                            "finally_close"}) =>
                 (port # << >> /\ port = web.retval)
          /\ StatusOf(status_steps, "update qbittorrent port") = "ok" =>
                 qbt.submitted # << >>
          /\ StatusOf(status_steps, "update docker env") = "ok" =>
                 envFile.written
          /\ StatusOf(status_steps, "restart docker containers") = "ok" =>
                 (docker.restarts = 1 /\ pc \in {"report", "return0", "done"})

C18_Step ==
    \A i \in 1..Len(status_steps) :
        status_steps[i][2] = "ok" =>
            (i <= Len(status_steps') /\ status_steps'[i] = status_steps[i])

C18_LedgerMovesForward == [][C18_State' /\ C18_Step]_vars

\* C19: one port value flows through the run: the port is assigned once,
\* to the validated text acquisition returned, and never changes; the
\* torrent client is called with it and, when the preferences are
\* submitted, listen_port is its numeric value; when the file is written
\* every FIREWALL_VPN_INPUT_PORTS line carries it; the success report,
\* when it is dispatched, names it.
C19_State ==
    /\ port # << >> =>
          /\ port = web.retval
          /\ port = web.captured
          /\ \A i \in 1..Len(port) : port[i] \in {"0", "7", "sup2"}
    /\ qbt.calls > 0 => (qbt.arg = port /\ port # << >>)
    /\ envFile.written => port # << >>

C19_Step ==
    /\ port' # port => (port = << >> /\ pc = "finally_close")
    /\ qbt'.submitted # qbt.submitted =>
          /\ port' = port
          /\ \A i \in 1..Len(port) : port[i] \in {"0", "7"}
          /\ qbt'.submitted # << >>
          /\ qbt'.submitted[1].listen_port = IntOf(port)
    /\ (envFile'.written /\ ~envFile.written) =>
          /\ port' = port
          /\ LET ls == ReadLines(envFile'.after) IN
             \A i \in 1..Len(ls) :
                 StartsWithKey(ls[i]) => ls[i] = <<KEY, "=">> \o port \o <<NL>>
    /\ notifications' # notifications =>
          /\ port' = port
          /\ LET n == notifications'[Len(notifications')] IN
             ~n.is_error => (port # << >> /\ n.port = port)

C19_OnePortFlows == [][C19_State' /\ C19_Step]_vars

\* C19 witness: a full success in which port "7" reached the torrent
\* client, the key line of the file and the success report
C19_Witness ==
    /\ pc = "done"
    /\ exitCode = 0
    /\ port = <<"7">>
    /\ web.retval = <<"7">>
    /\ qbt.submitted # << >>
    /\ qbt.submitted[1].listen_port = 7
    /\ envFile.before = <<"X", NL, KEY, "=", "0">>
    /\ envFile.after = <<"X", NL, KEY, "=", "7", NL>>
    /\ Len(notifications) = 1
    /\ notifications[1].port = <<"7">>

\* C20: whenever the 'update docker env' entry is success the config
\* file holds a line FIREWALL_VPN_INPUT_PORTS=<acquired port>, whatever
\* the file held before, and the services are restarted only when the
\* file carries the new port.
C20_FileCarriesPort ==
    LET ls == ReadLines(envFile.after)
        carries == \E i \in 1..Len(ls) :
                       ls[i] = <<KEY, "=">> \o port \o <<NL>>
    IN /\ StatusOf(status_steps, "update docker env") = "ok" => carries
       /\ docker.restarts > 0 => carries
====
